---- MODULE Spec2Model ----
(***************************************************************************)
(* A model of PresetAnalyzer.py: the analysis pipeline of analyze_audio,   *)
(* from the loaded signal to the seven-band preset.                        *)
(*                                                                         *)
(* Numbers.  The program computes in binary floating point; the model      *)
(* computes in fixed point:                                                *)
(*   levels and gains   in millidecibels          (1 dB   = 1000)          *)
(*   Q values           in thousandths            (Q 1.0  = 1000)          *)
(*   normalized values  in units of 1/100000      (1.0    = 100000)        *)
(*   log10 values       in units of 1/100000                               *)
(*   a frequency        as the exact fraction [num |-> n, den |-> d] Hz    *)
(* Divisions truncate; the claims allow for the rounding.                  *)
(***************************************************************************)
EXTENDS Integers, Sequences, FiniteSets, TLC

VARIABLES
    pc,                   \* position within analyze_audio
    y,                    \* the loaded signal: its length, rate and content
    n_fft,                \* FFT size chosen for the signal
    transient_density,    \* transients per second, in thousandths
    transient_q_factor,   \* 0.9 / 1.1 / 1.3, in thousandths
    avg_spectrum,         \* analyze_segments' spectrum, one level per bin
    avg_spectrum_smooth,  \* smoothed, then perceptually weighted
    freq_range,           \* detect_frequency_range's (min_freq, max_freq)
    reference_level,      \* calculate_reference_level's result
    preset_data,          \* the preset under construction
    band_raw,             \* per band, the raw (freq, gain, q) handed to the normalizer,
                          \* with the extremum's bin (ext), the gain before dampening
                          \* (gain0) and what calculate_q_from_spectrum returned (cq)
    band_i,               \* the band the loop is at (i)
    actual_q_values,      \* the denormalized Q list of the final pass
    result,               \* what analyze_audio returned
    raised,               \* the stage whose exception ended the analysis
    clock,                \* the wall clock, in seconds
    earlier               \* the preset of the previous run on the same input

vars == <<pc, y, n_fft, transient_density, transient_q_factor, avg_spectrum,
          avg_spectrum_smooth, freq_range, reference_level, preset_data,
          band_raw, band_i, actual_q_values, result, raised, clock, earlier>>

\* The seven bands, indexed as the program indexes them.
Bands == 0 .. 6

\* A preset field, or a list entry, not written yet.
Unset == -1

\* ------------------------------------------------------------------------
\* Fixed-point arithmetic
\* ------------------------------------------------------------------------

\* 1.0 of a normalized parameter and of a log10 value.
ONE == 100000


Abs(x) == IF x < 0 THEN -x ELSE x

\* A whole number of Hz as a fraction.
Hz(n) == [num |-> n, den |-> 1]

Min2(a, b) == IF b < a THEN b ELSE a

Max2(a, b) == IF b > a THEN b ELSE a

\* Division rounding toward zero, as a float product's sign is symmetric.
Quot(a, b) == IF a >= 0 THEN a \div b ELSE -((-a) \div b)

\* x * p / q for a factor p/q, e.g. gain * 0.7 is Scale(gain, 7, 10).
Scale(x, p, q) == Quot(x * p, q)

Pow10Table == <<1, 10, 100, 1000, 10000, 100000>>

Pow10(e) == Pow10Table[e + 1]

RECURSIVE Pow2Rec(_)
Pow2Rec(e) == IF e <= 0 THEN 1 ELSE 2 * Pow2Rec(e - 1)

Pow2Table == [e \in 0 .. 30 |-> Pow2Rec(e)]

Pow2(e) == Pow2Table[e]

\* Mantissa scale of the binary logarithm.
FIX == Pow2(14)

RECURSIVE FloorLog2(_)
FloorLog2(n) == IF n < 2 THEN 0 ELSE 1 + FloorLog2(n \div 2)

\* The fraction bits of log2(m / FIX) for FIX <= m < 2 FIX, by repeated squaring.
RECURSIVE FracBits(_, _)
FracBits(m, b) ==
    IF b > 14 THEN 0
    ELSE LET m2 == (m * m + FIX \div 2) \div FIX
         IN  IF m2 >= 2 * FIX
             THEN Pow2(14 - b) + FracBits(m2 \div 2, b + 1)
             ELSE FracBits(m2, b + 1)

\* log2(n) * FIX for an integer n >= 1.
Log2Fix(n) ==
    LET e == FloorLog2(n)
        m == IF e >= 14 THEN n \div Pow2(e - 14) ELSE n * Pow2(14 - e)
    IN  e * FIX + FracBits(m, 1)

\* np.log10(n) * ONE for an integer n >= 1 (log10(2) = 0.30103).
Log10Fix(n) ==
    LET l == Log2Fix(n)
    IN  (l \div FIX) * 30103 + ((l % FIX) * 30103) \div FIX

\* 2^(2^-b) * FIX, b = 1..14.
RootTable == <<23170, 19484, 17867, 17109, 16743, 16562, 16473,
               16428, 16406, 16395, 16390, 16387, 16385, 16385>>

\* 2^(f / FIX) * FIX for 0 <= f < FIX: the product of the roots of its set bits.
RECURSIVE Exp2Frac(_, _)
Exp2Frac(f, b) ==
    IF b > 14 THEN FIX
    ELSE LET rest == Exp2Frac(f % Pow2(14 - b), b + 1)
         IN  IF f \div Pow2(14 - b) = 1
             THEN (rest * RootTable[b] + FIX \div 2) \div FIX
             ELSE rest

\* Integer square root.
RECURSIVE IsqrtFrom(_, _, _)
IsqrtFrom(n, lo, hi) ==
    IF lo >= hi THEN lo
    ELSE LET mid == (lo + hi + 1) \div 2
         IN  IF mid * mid <= n THEN IsqrtFrom(n, mid, hi)
             ELSE IsqrtFrom(n, lo, mid - 1)

Isqrt(n) == IsqrtFrom(n, 0, Min2(n, 46340))

\* floor(a * 10^k / c) for 0 <= a < c, digit by digit (no wide product).
RECURSIVE FracDigits(_, _, _)
FracDigits(a, c, k) ==
    IF k = 0 THEN 0
    ELSE LET hi == (a * 10) \div c
             lo == (a * 10) % c
         IN  hi * Pow10(k - 1) + FracDigits(lo, c, k - 1)

\* max(0.0, min(1.0, d / span)) in units of 1/ONE, span > 0.
Clamp01(d, span) ==
    IF d <= 0 THEN 0
    ELSE IF d >= span THEN ONE
    ELSE FracDigits(d, span, 5)

\* ------------------------------------------------------------------------
\* Normalizer (normalize_frequency, normalize_gain, normalize_q)
\* ------------------------------------------------------------------------

\* np.log10 of a fraction with num > 0.
Log10Frac(f) == Log10Fix(f.num) - Log10Fix(f.den)

\* normalize_frequency without its clamp: 0 Hz falls below the range.
normalize_frequency_unclamped(freq) ==
    LET d == Log10Frac(freq) - Log10Fix(20)
        span == Log10Fix(20000) - Log10Fix(20)
    IN  IF freq.num = 0 THEN -ONE
        ELSE IF d < 0 THEN -FracDigits(-d, span, 5)
        ELSE (d \div span) * ONE + FracDigits(d % span, span, 5)

\* normalize_frequency: log map of [20, 20000] Hz to [0, 1], clamped.
\* np.log10(0) is -inf, which the clamp takes to 0.0.
normalize_frequency(freq) ==
    LET min_freq == 20
        max_freq == 20000
    IN  IF freq.num = 0 THEN 0
        ELSE Clamp01(Log10Frac(freq) - Log10Fix(min_freq),
                     Log10Fix(max_freq) - Log10Fix(min_freq))

\* normalize_gain: linear map of [-24, 24] dB to [0, 1], clamped.
normalize_gain(gain) ==
    LET min_gain == -24000
        max_gain == 24000
    IN  Clamp01(gain - min_gain, max_gain - min_gain)

\* normalize_q: log map of [0.1, 10] to [0, 1], clamped.  q > 0 in thousandths.
normalize_q(q) ==
    LET min_q == 100
        max_q == 10000
    IN  Clamp01(Log10Fix(q) - Log10Fix(min_q), Log10Fix(max_q) - Log10Fix(min_q))

\* 0.1 * pow(10, normalized_q * (log10(10) - log10(0.1))), in thousandths:
\* 10^(2 n) = 2^(2 n log2(10)), and 2 * log2(10) * FIX / ONE = 1.08853.
DenormalizeQ(normalized_q) ==
    LET yv == normalized_q + (normalized_q * 8853) \div ONE
        e  == yv \div FIX
        f  == yv % FIX
    IN  (100 * Pow2(e) * Exp2Frac(f, 1) + FIX \div 2) \div FIX

\* ------------------------------------------------------------------------
\* The frequency grid (librosa.fft_frequencies) and slices of a spectrum
\* ------------------------------------------------------------------------

\* Number of bins of an n-point analysis: 1 + n // 2.
NumBins(n) == 1 + n \div 2

\* freqs[k] = k * sr / n_fft.
Freq(k, sr, n) == [num |-> k * sr, den |-> n]

\* A fraction compared with a whole number of Hz.
FracLt(f, hz) == f.num < hz * f.den

FracGt(f, hz) == f.num > hz * f.den

\* Bin k of a spectrum (sequences count from 1, the program from 0).
Bin(s, k) == s[k + 1]

\* np.argmin(np.abs(freqs - target)): the first bin nearest to target Hz.
\* The bins are k * sr / n for k = 0, 1, ...: the nearest is one of the two
\* around target * n / sr, the lower one on a tie, or the last bin.
NearestBin(target, sr, n) ==
    LET last == NumBins(n) - 1
        a    == Min2((target * n) \div sr, last)
        b    == Min2(a + 1, last)
    IN  IF Abs(b * sr - target * n) < Abs(a * sr - target * n) THEN b ELSE a

\* Sum of s[lo:hi].
RECURSIVE SumRange(_, _, _)
SumRange(s, lo, hi) ==
    IF lo >= hi THEN 0
    ELSE IF hi - lo = 1 THEN Bin(s, lo)
    ELSE LET mid == (lo + hi) \div 2
         IN  SumRange(s, lo, mid) + SumRange(s, mid, hi)

\* np.mean(s[lo:hi]) for lo < hi.
MeanRange(s, lo, hi) == Quot(SumRange(s, lo, hi), hi - lo)

\* lo + np.argmax(s[lo:hi]): the first bin holding the maximum, lo < hi.
RECURSIVE ArgMaxRange(_, _, _)
ArgMaxRange(s, lo, hi) ==
    IF hi - lo = 1 THEN lo
    ELSE LET mid == (lo + hi) \div 2
             a   == ArgMaxRange(s, lo, mid)
             b   == ArgMaxRange(s, mid, hi)
         IN  IF Bin(s, b) > Bin(s, a) THEN b ELSE a

\* lo + np.argmin(s[lo:hi]): the first bin holding the minimum, lo < hi.
RECURSIVE ArgMinRange(_, _, _)
ArgMinRange(s, lo, hi) ==
    IF hi - lo = 1 THEN lo
    ELSE LET mid == (lo + hi) \div 2
             a   == ArgMinRange(s, lo, mid)
             b   == ArgMinRange(s, mid, hi)
         IN  IF Bin(s, b) < Bin(s, a) THEN b ELSE a

\* ------------------------------------------------------------------------
\* np.median
\* ------------------------------------------------------------------------

\* The k-th smallest (k = 1..m) of v[1..m].
Kth(v, m, k) ==
    CHOOSE x \in {v[j] : j \in 1 .. m} :
        /\ Cardinality({j \in 1 .. m : v[j] < x}) < k
        /\ Cardinality({j \in 1 .. m : v[j] <= x}) >= k

\* np.median(v[1..m]), m >= 1.
Median(v, m) ==
    IF m % 2 = 1 THEN Kth(v, m, (m + 1) \div 2)
    ELSE Quot(Kth(v, m, m \div 2) + Kth(v, m, m \div 2 + 1), 2)

\* ------------------------------------------------------------------------
\* scipy.signal.savgol_filter(x, window_length, 3), mode "interp"
\* ------------------------------------------------------------------------

\* The filter raises ValueError when polyorder >= window_length, and when
\* window_length exceeds the size of x.
SavgolRaises(size, window_length, polyorder) ==
    polyorder >= window_length \/ window_length > size

\* The 4th difference of the five values around bin c.
Diff4(s, c) ==
    Bin(s, c - 2) - 4 * Bin(s, c - 1) + 6 * Bin(s, c) - 4 * Bin(s, c + 1) + Bin(s, c + 2)

\* Window 5, cubic: the least-squares cubic through five points leaves the
\* residual (1,-4,6,-4,1) * Diff4 / 70; inside, the window is centred on the
\* bin, and the first and last two bins are read off the fit of the first
\* and last window.
SavgolCubic5(s) ==
    LET m == Len(s)
    IN  [j \in 1 .. m |->
            LET k == j - 1
            IN  IF k = 0 THEN Bin(s, k) - Quot(Diff4(s, 2), 70)
                ELSE IF k = 1 THEN Bin(s, k) + Quot(4 * Diff4(s, 2), 70)
                ELSE IF k = m - 2 THEN Bin(s, k) + Quot(4 * Diff4(s, m - 3), 70)
                ELSE IF k = m - 1 THEN Bin(s, k) - Quot(Diff4(s, m - 3), 70)
                ELSE Bin(s, k) - Quot(6 * Diff4(s, k), 70)]

\* ------------------------------------------------------------------------
\* calculate_q_from_spectrum
\* ------------------------------------------------------------------------

\* The slice is bins lo .. hi-1 of s; its frequencies are those of the grid.
SetMax(S) == CHOOSE x \in S : \A z \in S : z <= x

SetMin(S) == CHOOSE x \in S : \A z \in S : x <= z

\* The lower walk stopping wherever the level leaves the 3 dB either side of
\* the extremum.
LowerWalkWithin(s, lo, idx, half_power) ==
    SetMax({0} \cup {j \in 1 .. idx : \/ Bin(s, lo + j) <= half_power
                                      \/ Bin(s, lo + j) >= half_power + 6000})

\* while lower_idx > 0 and spectrum[lower_idx] > half_power: lower_idx -= 1
\* stops at the nearest index at or below idx whose level is not above
\* half_power, or at 0.
LowerWalk(s, lo, idx, half_power) ==
    SetMax({0} \cup {j \in 1 .. idx : Bin(s, lo + j) <= half_power})

\* while upper_idx < len - 1 and spectrum[upper_idx] > half_power: upper_idx += 1
UpperWalk(s, lo, len, idx, half_power) ==
    SetMin({len - 1} \cup {j \in idx .. len - 2 : Bin(s, lo + j) <= half_power})

\* The frequency-tiered default of the "no proper bandwidth points" branch.
TieredDefaultQ(center_freq) ==
    IF FracLt(center_freq, 100) THEN 700
    ELSE IF FracLt(center_freq, 250) THEN 1000
    ELSE IF FracLt(center_freq, 2000) THEN 1200
    ELSE 1500

\* Frequency-dependent scaling of the ratio center / bandwidth.
MusicalScale(q, center_freq) ==
    IF FracLt(center_freq, 100) THEN Scale(q, 5, 10)
    ELSE IF FracLt(center_freq, 250) THEN Scale(q, 6, 10)
    ELSE IF FracLt(center_freq, 800) THEN Scale(q, 7, 10)
    ELSE IF FracLt(center_freq, 2500) THEN Scale(q, 8, 10)
    ELSE IF FracLt(center_freq, 5000) THEN Scale(q, 9, 10)
    ELSE q

\* The Q returned when the extremum is the first or last bin of the slice.
EdgeQ == 1000

\* The estimator with the tiered default at the slice edges too.
calculate_q_edge_tiered(s, lo, hi, peak_idx, sr, n) ==
    LET len         == hi - lo
        center_freq == Freq(lo + peak_idx, sr, n)
    IN  IF peak_idx <= 0 \/ peak_idx >= len - 1 THEN TieredDefaultQ(center_freq)
        ELSE
          LET half_power == Bin(s, lo + peak_idx) - 3000
              lower_idx  == LowerWalk(s, lo, peak_idx, half_power)
              upper_idx  == UpperWalk(s, lo, len, peak_idx, half_power)
          IN  IF upper_idx <= lower_idx THEN TieredDefaultQ(center_freq)
              ELSE LET q == ((lo + peak_idx) * 1000) \div (upper_idx - lower_idx)
                   IN  Min2(Max2(MusicalScale(q, center_freq), 500), 4000)

\* calculate_q_from_spectrum(s[lo:hi], peak_idx, freqs[lo:hi]), in thousandths.
\* peak_idx is relative to the slice.
calculate_q_from_spectrum(s, lo, hi, peak_idx, sr, n) ==
    LET len == hi - lo
    IN  IF peak_idx <= 0 \/ peak_idx >= len - 1 THEN EdgeQ
        ELSE
          LET half_power  == Bin(s, lo + peak_idx) - 3000
              lower_idx   == LowerWalk(s, lo, peak_idx, half_power)
              upper_idx   == UpperWalk(s, lo, len, peak_idx, half_power)
              center_freq == Freq(lo + peak_idx, sr, n)
          IN  IF upper_idx <= lower_idx \/ upper_idx >= len \/ lower_idx < 0
              THEN TieredDefaultQ(center_freq)
              ELSE
                \* bandwidth = freqs[upper] - freqs[lower] > 0 here, and
                \* q = center_freq / bandwidth = (lo + peak_idx) / (upper - lower)
                IF (upper_idx - lower_idx) * sr <= 0 THEN 1000
                ELSE LET q == ((lo + peak_idx) * 1000) \div (upper_idx - lower_idx)
                     IN  Min2(Max2(MusicalScale(q, center_freq), 500), 4000)

\* ------------------------------------------------------------------------
\* analyze_audio: the FFT size
\* ------------------------------------------------------------------------

\* Sample rates: 300 Hz gives a 3-sample envelope window, 4000 Hz leaves the
\* 2000-3000 Hz reference band without bins.
SampleRates == {300, 4000, 8000, 44100}

\* Signal lengths in samples: empty, shorter than 10 ms at 44.1 kHz, too
\* short for the spectrum smoother (n_fft // 160 < 4), and long enough.
Lengths == {0, 100, 500, 800}

\* n_fft = 32768, or min(16384, len(y)) for a shorter signal.
ChosenNfft(len) == IF len < 32768 THEN Min2(16384, len) ELSE 32768

\* ------------------------------------------------------------------------
\* TransientAnalyzer (analyze_transients)
\* ------------------------------------------------------------------------

\* window_size = int(sr * 0.01), made odd.
EnvelopeWindow(sr) ==
    LET w == sr \div 100
    IN  IF w % 2 = 0 THEN w + 1 ELSE w

\* The envelope smoothing raises for a signal shorter than the window and
\* for a window of at most 3 samples.
TransientsRaise(sig) == SavgolRaises(sig.len, EnvelopeWindow(sig.sr), 3)

\* len(peaks) / (len(y) / sr), in thousandths; 0 for an empty signal.
TransientDensity(sig) ==
    IF sig.len > 0 THEN (sig.peaks * sig.sr * 1000) \div sig.len ELSE 0

TransientQFactor(density) ==
    IF density > 10000 THEN 1300
    ELSE IF density > 5000 THEN 1100
    ELSE 900

\* ------------------------------------------------------------------------
\* SegmentSpectrumAnalyzer (analyze_segments)
\* ------------------------------------------------------------------------

\* The segments of the signal: n_segments * 2 - 1 with n_segments = 8.
NumSegments == 15

\* What the short-time transform yields for a segment is the library's
\* business; a signal carries, per segment, either 0 (mean |amplitude| below
\* 0.01: skipped as silent) or the index of the time-averaged dB spectrum of
\* that segment in ShapeTable.  Levels are relative to the segment's peak
\* magnitude, so they lie in [-80, 0] dB.
ShapeTable ==
    << [base |-> -30000, f0 |-> 1000, height |-> 0,      hw |-> 1],
       [base |-> -40000, f0 |-> 1000, height |-> 30000,  hw |-> 600],
       [base |-> -20000, f0 |-> 3000, height |-> -40000, hw |-> 1500],
       [base |-> -50000, f0 |-> 80,   height |-> 45000,  hw |-> 100],
       [base |-> -70000, f0 |-> 7000, height |-> 60000,  hw |-> 2500] >>

\* Level of bin k of a shape: base plus a triangular bump around f0 Hz.
ShapeLevel(sh, k, sr, n) ==
    LET d == Abs(k * sr - sh.f0 * n)
        w == sh.hw * n
    IN  IF d >= w THEN sh.base
        ELSE sh.base + sh.height - Quot(sh.height * (d \div 100), w \div 100)

SegmentSpectrum(shape, sr, n) ==
    [j \in 1 .. NumBins(n) |-> ShapeLevel(ShapeTable[shape], j - 1, sr, n)]

\* The segments that survive the silence test, in order.
Surviving(sig) ==
    LET Loud(shape) == shape # 0
    IN  SelectSeq(sig.segments, Loud)

\* analyze_segments: the per-bin median over the surviving segments, or the
\* zero spectrum when every segment is silent.
analyze_segments(sig, n) ==
    LET alive == Surviving(sig)
        m     == Len(alive)
    IN  IF m = 0 THEN [j \in 1 .. NumBins(n) |-> 0]
        ELSE [j \in 1 .. NumBins(n) |->
                Median([c \in 1 .. m |->
                          ShapeLevel(ShapeTable[alive[c]], j - 1, sig.sr, n)], m)]

\* ------------------------------------------------------------------------
\* SpectrumSmoother
\* ------------------------------------------------------------------------

\* window_size = min(101, n_fft // 160), made odd.
SmoothWindow(n) ==
    LET w == Min2(101, n \div 160)
    IN  IF w % 2 = 1 THEN w ELSE w + 1

SmoothRaises(s, n) == SavgolRaises(Len(s), SmoothWindow(n), 3)

\* The smoothed spectrum.  The lengths of the model keep the window at 5.
Smoothed(s, n) == SavgolCubic5(s)

\* ------------------------------------------------------------------------
\* PerceptualWeighting (apply_perceptual_weighting)
\* ------------------------------------------------------------------------

\* log10(f^2 + c^2) * ONE for f in tenths of a Hz, c2 = c^2 in hundredths;
\* above 4 kHz f^2 is taken in whole Hz^2.
LogF2Plus(fd, c2) ==
    IF fd <= 40000
    THEN Log10Fix(fd * fd + c2) - 2 * ONE
    ELSE Log10Fix((fd \div 10) * (fd \div 10) + c2 \div 100)

\* log10(f^2 + 12200^2) * ONE.
LogF2Plus12200(fd) ==
    IF fd <= 40000
    THEN Log10Fix((fd * fd) \div 100 + 148840000)
    ELSE Log10Fix((fd \div 10) * (fd \div 10) + 148840000)

\* A_db = 2.0 + 20 log10(A(f)) in millidecibels, for bin k > 0, with
\* A = 12200^2 f^4 / ((f^2 + 20.6^2)(f^2 + 12200^2) sqrt((f^2 + 107.7^2)(f^2 + 737.9^2))).
AWeightDb(k, sr, n) ==
    LET fd == (k * sr * 10) \div n
        la == 2 * Log10Fix(12200)
              + 4 * (Log10Fix(k * sr) - Log10Fix(n))
              - LogF2Plus(fd, 42436)
              - LogF2Plus12200(fd)
              - Quot(LogF2Plus(fd, 1159929) + LogF2Plus(fd, 54449641), 2)
    IN  2000 + Quot(la, 5)

\* The psychoacoustic corrections: +1.5 dB in (250, 800) Hz, -1 dB in (6000, 10000).
Correction(k, sr, n) ==
    (IF FracGt(Freq(k, sr, n), 250) /\ FracLt(Freq(k, sr, n), 800) THEN 1500 ELSE 0)
    - (IF FracGt(Freq(k, sr, n), 6000) /\ FracLt(Freq(k, sr, n), 10000) THEN 1000 ELSE 0)

\* What bin k gains: A_db where f > 0, plus the corrections.
Weighting(k, sr, n) ==
    (IF k > 0 THEN AWeightDb(k, sr, n) ELSE 0) + Correction(k, sr, n)

\* The weighting of every bin, tabulated once per grid.
WeightingTable ==
    [sr \in SampleRates |->
        [n \in {ChosenNfft(len) : len \in Lengths} \ {0} |->
            [j \in 1 .. NumBins(n) |-> Weighting(j - 1, sr, n)]]]

apply_perceptual_weighting(s, sr, n) ==
    [j \in 1 .. Len(s) |-> s[j] + WeightingTable[sr][n][j]]

\* ------------------------------------------------------------------------
\* FrequencyRangeDetector (detect_frequency_range)
\* ------------------------------------------------------------------------

FracMax(hz, f) == IF FracLt(f, hz) THEN Hz(hz) ELSE f

FracMin(hz, f) == IF FracGt(f, hz) THEN Hz(hz) ELSE f

detect_frequency_range(s, sr, n) ==
    LET threshold_db  == -60000
        last          == Len(s) - 1
        Valid(k)      == Bin(s, k) > threshold_db
    IN  IF \E k \in 0 .. last : Valid(k)
        THEN LET min_idx == CHOOSE k \in 0 .. last :
                                Valid(k) /\ \A j \in 0 .. k - 1 : ~Valid(j)
                 max_idx == CHOOSE k \in 0 .. last :
                                Valid(k) /\ \A j \in k + 1 .. last : ~Valid(j)
             IN  <<FracMax(20, Freq(min_idx, sr, n)), FracMin(20000, Freq(max_idx, sr, n))>>
        ELSE <<Hz(20), Hz(20000)>>

\* ------------------------------------------------------------------------
\* ReferenceLevelEstimator (calculate_reference_level)
\* ------------------------------------------------------------------------

ref_points == << [low |-> 400,  high |-> 600],
                 [low |-> 800,  high |-> 1200],
                 [low |-> 2000, high |-> 3000] >>

\* The reference bands that yield samples.
RefBands(sr, n) ==
    {r \in 1 .. 3 : NearestBin(ref_points[r].low, sr, n)
                      < NearestBin(ref_points[r].high, sr, n)}

\* np.median of the band's slice.
RefMedian(s, r, sr, n) ==
    LET lo == NearestBin(ref_points[r].low, sr, n)
        hi == NearestBin(ref_points[r].high, sr, n)
    IN  Median([j \in 1 .. hi - lo |-> Bin(s, lo + j - 1)], hi - lo)

\* np.average(ref_levels, weights=[0.25, 0.5, 0.25]) raises unless there are
\* exactly three levels to weight.
ReferenceRaises(sr, n) ==
    RefBands(sr, n) # {} /\ Cardinality(RefBands(sr, n)) # 3

calculate_reference_level(s, sr, n) ==
    IF RefBands(sr, n) = {} THEN 0
    ELSE Quot(RefMedian(s, 1, sr, n) + 2 * RefMedian(s, 2, sr, n)
                + RefMedian(s, 3, sr, n), 4)

\* ------------------------------------------------------------------------
\* BandExtractor: the band loop of analyze_audio
\* ------------------------------------------------------------------------

\* freq_ranges: the band edges in Hz.
freq_ranges ==
    [i \in Bands |->
        CASE i = 0 -> [low |-> 20,    high |-> 150]
          [] i = 1 -> [low |-> 150,   high |-> 400]
          [] i = 2 -> [low |-> 400,   high |-> 800]
          [] i = 3 -> [low |-> 800,   high |-> 2500]
          [] i = 4 -> [low |-> 2500,  high |-> 5000]
          [] i = 5 -> [low |-> 5000,  high |-> 10000]
          [] i = 6 -> [low |-> 10000, high |-> 20000]]

LowIdx(i, sr, n) == NearestBin(freq_ranges[i].low, sr, n)

HighIdx(i, sr, n) == NearestBin(freq_ranges[i].high, sr, n)

\* Bands 0..2: the maximum of the band, gain from the band average.
BassBand(i, s, lo, hi, sr, n, ref) ==
    LET band_avg == MeanRange(s, lo, hi)
        peak     == ArgMaxRange(s, lo, hi)
        g0       == band_avg - ref
        g1       == IF g0 < 0 THEN Scale(g0, 7, 10) ELSE Scale(g0, 12, 10)
        cq       == calculate_q_from_spectrum(s, lo, hi, peak - lo, sr, n)
    IN  [freq |-> Freq(peak, sr, n),
         gain |-> IF i = 0 THEN Scale(g1, 9, 10)
                  ELSE IF i = 1 THEN g1
                  ELSE IF g1 > 0 THEN Scale(g1, 11, 10) ELSE g1,
         q    |-> IF i = 0 THEN Min2(Scale(cq, 7, 10), 800)
                  ELSE IF i = 1 THEN Min2(Scale(cq, 8, 10), 1200)
                  ELSE Min2(Scale(cq, 9, 10), 1500),
         path |-> "bass",
         ext  |-> peak, gain0 |-> g0, cq |-> cq]

\* The significance of the maximum without the band weights.
PeakSignificancePlain(i, peak_val, band_avg) == peak_val - band_avg

\* The weighted significances of the maximum and the minimum of bands 3..6.
PeakSignificance(i, peak_val, band_avg) ==
    IF i = 4 THEN Scale(peak_val - band_avg, 11, 10)
    ELSE IF i >= 5 THEN Scale(peak_val - band_avg, 12, 10)
    ELSE peak_val - band_avg

DipSignificance(i, dip_val, band_avg) ==
    IF i = 3 THEN Scale(band_avg - dip_val, 115, 100)
    ELSE band_avg - dip_val

\* Band-specific gain dampening of bands 3..6.
UpperGain(i, g) ==
    LET g1 == IF i >= 5 THEN Scale(g, 8, 10) ELSE g
    IN  IF i = 3 THEN Scale(g1, 9, 10)
        ELSE IF i = 4 THEN Scale(g1, 85, 100)
        ELSE g1

PeakQ(i, q) ==
    IF i = 3 THEN Min2(Scale(q, 9, 10), 1800)
    ELSE IF i = 4 THEN Min2(Scale(q, 95, 100), 2000)
    ELSE IF i = 5 THEN Min2(q, 2500)
    ELSE Min2(Scale(q, 8, 10), 1500)

DipQ(i, q) ==
    LET q1 == Scale(q, 8, 10)
    IN  IF i = 3 THEN Min2(q1, 1500)
        ELSE IF i = 4 THEN Min2(q1, 1700)
        ELSE IF i = 5 THEN Min2(q1, 2000)
        ELSE Min2(q1, 1200)

\* The comparison with a tie going to the peak.
PeakWinsOnTie(peak_significance, dip_significance) ==
    peak_significance >= dip_significance

\* Whether the band reports its maximum rather than its minimum.
PeakWins(peak_significance, dip_significance) ==
    peak_significance > dip_significance

\* Bands 3..6: the maximum or the minimum, whichever is more significant.
UpperBand(i, s, lo, hi, sr, n, ref) ==
    LET band_avg == MeanRange(s, lo, hi)
        peak     == ArgMaxRange(s, lo, hi)
        dip      == ArgMinRange(s, lo, hi)
        peak_val == Bin(s, peak)
        dip_val  == Bin(s, dip)
    IN  IF PeakWins(PeakSignificance(i, peak_val, band_avg),
                    DipSignificance(i, dip_val, band_avg))
        THEN [freq |-> Freq(peak, sr, n),
              gain |-> UpperGain(i, peak_val - ref),
              q    |-> PeakQ(i, calculate_q_from_spectrum(s, lo, hi, peak - lo, sr, n)),
              path |-> "peak",
              ext  |-> peak, gain0 |-> peak_val - ref,
              cq   |-> calculate_q_from_spectrum(s, lo, hi, peak - lo, sr, n)]
        ELSE [freq |-> Freq(dip, sr, n),
              gain |-> UpperGain(i, dip_val - ref),
              q    |-> DipQ(i, calculate_q_from_spectrum(s, lo, hi, dip - lo, sr, n)),
              path |-> "dip",
              ext  |-> dip, gain0 |-> dip_val - ref,
              cq   |-> calculate_q_from_spectrum(s, lo, hi, dip - lo, sr, n)]

\* Gain-dependent narrowing, then the transient factor.
AdjustQ(q, gain, tqf) ==
    LET q1 == IF Abs(gain) > 10000 THEN Scale(q, 6, 10)
              ELSE IF Abs(gain) > 6000 THEN Scale(q, 8, 10)
              ELSE q
    IN  Scale(q1, tqf, 1000)

\* gain = max(min(gain, 6), -12)
ClampGain(gain) == Max2(Min2(gain, 6000), -12000)

\* The Q clamp with the ceiling of calculate_q_from_spectrum.
ClampQWide(q) == Max2(Min2(q, 4000), 500)

\* q = max(min(q, 2.0), 0.5)
ClampQ(q) == Max2(Min2(q, 2000), 500)

\* np.sqrt(x) as a fraction: isqrt(x * 4^j) / 2^j with the widest j that fits.
RECURSIVE SqrtShift(_, _)
SqrtShift(x, j) ==
    IF x >= Pow2(28) \/ j >= 12 THEN [num |-> Isqrt(x), den |-> Pow2(j)]
    ELSE SqrtShift(x * 4, j + 1)

SqrtFrac(x) == SqrtShift(x, 0)

\* The fallback with the arithmetic centre of the band.
EmptyBandMid(i) ==
    [band |-> i,
     freq |-> [num |-> freq_ranges[i].low + freq_ranges[i].high, den |-> 2],
     gain |-> 0,
     q    |-> 1000,
     path |-> "empty",
     ext  |-> -1, gain0 |-> 0, cq |-> 0]

\* The fallback triple of a band with an empty slice.
EmptyBand(i) ==
    [band |-> i,
     freq |-> SqrtFrac(freq_ranges[i].low * freq_ranges[i].high),
     gain |-> 0,
     q    |-> 1000,
     path |-> "empty",
     ext  |-> -1, gain0 |-> 0, cq |-> 0]

\* The raw (freq, gain, q) of band i, as handed to the normalizer.
BandResult(i, s, sr, n, ref, tqf) ==
    LET lo == LowIdx(i, sr, n)
        hi == HighIdx(i, sr, n)
    IN  IF lo < hi
        THEN LET b == IF i <= 2
                      THEN BassBand(i, s, lo, hi, sr, n, ref)
                      ELSE UpperBand(i, s, lo, hi, sr, n, ref)
             IN  [band |-> i,
                  freq |-> b.freq,
                  gain |-> ClampGain(b.gain),
                  q    |-> ClampQ(AdjustQ(b.q, b.gain, tqf)),
                  path |-> b.path,
                  ext  |-> b.ext, gain0 |-> b.gain0, cq |-> b.cq]
        ELSE EmptyBand(i)

\* ------------------------------------------------------------------------
\* analyze_audio, stage by stage
\* ------------------------------------------------------------------------

NoMetadata == [CreatedBy |-> "", SourceFile |-> "", CreationDate |-> Unset,
               TransientDensity |-> Unset, FrequencyRange |-> <<>>]

EmptyPreset ==
    [Metadata |-> NoMetadata,
     Frequency |-> [i \in Bands |-> Unset],
     Gain |-> [i \in Bands |-> Unset],
     Q |-> [i \in Bands |-> Unset],
     ZeroLatency |-> Unset]

\* The working state of a run before its first stage.
Fresh ==
    /\ pc = "n_fft"
    /\ n_fft = 0
    /\ transient_density = 0
    /\ transient_q_factor = 0
    /\ avg_spectrum = <<>>
    /\ avg_spectrum_smooth = <<>>
    /\ freq_range = <<>>
    /\ reference_level = 0
    /\ preset_data = EmptyPreset
    /\ band_raw = <<>>
    /\ band_i = 0
    /\ actual_q_values = <<>>
    /\ result = "running"
    /\ raised = ""

\* except Exception: print, return None.
Raise(stage) ==
    /\ pc' = "done"
    /\ result' = "None"
    /\ raised' = stage

ChooseNfft ==
    /\ pc = "n_fft"
    /\ n_fft' = ChosenNfft(y.len)
    /\ pc' = "transients"
    /\ UNCHANGED <<y, transient_density, transient_q_factor, avg_spectrum,
                   avg_spectrum_smooth, freq_range, reference_level, preset_data,
                   band_raw, band_i, actual_q_values, result, raised, clock, earlier>>

AnalyzeTransients ==
    /\ pc = "transients"
    /\ IF TransientsRaise(y)
       THEN /\ Raise("analyze_transients")
            /\ UNCHANGED <<transient_density, transient_q_factor>>
       ELSE /\ transient_density' = TransientDensity(y)
            /\ transient_q_factor' = TransientQFactor(TransientDensity(y))
            /\ pc' = "segments"
            /\ UNCHANGED <<result, raised>>
    /\ UNCHANGED <<y, n_fft, avg_spectrum, avg_spectrum_smooth, freq_range,
                   reference_level, preset_data, band_raw, band_i, actual_q_values,
                   clock, earlier>>

AnalyzeSegments ==
    /\ pc = "segments"
    /\ avg_spectrum' = analyze_segments(y, n_fft)
    /\ pc' = "smooth"
    /\ UNCHANGED <<y, n_fft, transient_density, transient_q_factor,
                   avg_spectrum_smooth, freq_range, reference_level, preset_data,
                   band_raw, band_i, actual_q_values, result, raised, clock, earlier>>

Smooth ==
    /\ pc = "smooth"
    /\ IF SmoothRaises(avg_spectrum, n_fft)
       THEN /\ Raise("savgol_filter")
            /\ UNCHANGED avg_spectrum_smooth
       ELSE /\ avg_spectrum_smooth' = Smoothed(avg_spectrum, n_fft)
            /\ pc' = "weight"
            /\ UNCHANGED <<result, raised>>
    /\ UNCHANGED <<y, n_fft, transient_density, transient_q_factor, avg_spectrum,
                   freq_range, reference_level, preset_data, band_raw, band_i,
                   actual_q_values, clock, earlier>>

Weight ==
    /\ pc = "weight"
    /\ avg_spectrum_smooth' = apply_perceptual_weighting(avg_spectrum_smooth, y.sr, n_fft)
    /\ pc' = "range"
    /\ UNCHANGED <<y, n_fft, transient_density, transient_q_factor, avg_spectrum,
                   freq_range, reference_level, preset_data, band_raw, band_i,
                   actual_q_values, result, raised, clock, earlier>>

\* detect_frequency_range; analyze_spectral_balance, which follows, only prints.
DetectRange ==
    /\ pc = "range"
    /\ freq_range' = detect_frequency_range(avg_spectrum_smooth, y.sr, n_fft)
    /\ pc' = "reference"
    /\ UNCHANGED <<y, n_fft, transient_density, transient_q_factor, avg_spectrum,
                   avg_spectrum_smooth, reference_level, preset_data, band_raw, band_i,
                   actual_q_values, result, raised, clock, earlier>>

ReferenceLevel ==
    /\ pc = "reference"
    /\ IF ReferenceRaises(y.sr, n_fft)
       THEN /\ Raise("calculate_reference_level")
            /\ UNCHANGED reference_level
       ELSE /\ reference_level' = calculate_reference_level(avg_spectrum_smooth, y.sr, n_fft)
            /\ pc' = "metadata"
            /\ UNCHANGED <<result, raised>>
    /\ UNCHANGED <<y, n_fft, transient_density, transient_q_factor, avg_spectrum,
                   avg_spectrum_smooth, freq_range, preset_data, band_raw, band_i,
                   actual_q_values, clock, earlier>>

\* The clock runs from 0 to MaxClock seconds.
MaxClock == 1

\* preset_data["Metadata"], with datetime.now() read as `now`.
\* Metadata whose source name carries the time of the run.
MetadataOfStamped(sig, now, density, range) ==
    [CreatedBy |-> "PresetAnalyzer",
     SourceFile |-> <<sig.name, now>>,
     CreationDate |-> now,
     TransientDensity |-> density,
     FrequencyRange |-> range]

MetadataOf(sig, now, density, range) ==
    [CreatedBy |-> "PresetAnalyzer",
     SourceFile |-> sig.name,
     CreationDate |-> now,
     TransientDensity |-> density,
     FrequencyRange |-> range]

Metadata ==
    /\ pc = "metadata"
    /\ \E now \in clock .. MaxClock :
          /\ clock' = now
          /\ preset_data' = [preset_data EXCEPT
                               !.Metadata = MetadataOf(y, now, transient_density, freq_range)]
    /\ band_i' = 0
    /\ pc' = "bands"
    /\ UNCHANGED <<y, n_fft, transient_density, transient_q_factor, avg_spectrum,
                   avg_spectrum_smooth, freq_range, reference_level, band_raw,
                   actual_q_values, result, raised, earlier>>

\* One pass of the band loop: the raw triple of band i, normalized and stored.
Band ==
    /\ pc = "bands"
    /\ band_i \in Bands
    /\ LET b == BandResult(band_i, avg_spectrum_smooth, y.sr, n_fft,
                           reference_level, transient_q_factor)
       IN  /\ band_raw' = Append(band_raw, b)
           /\ preset_data' = [preset_data EXCEPT
                                !.Frequency[band_i] = normalize_frequency(b.freq),
                                !.Gain[band_i] = normalize_gain(b.gain),
                                !.Q[band_i] = normalize_q(b.q)]
    /\ band_i' = band_i + 1
    /\ pc' = IF band_i = 6 THEN "zero_latency" ELSE "bands"
    /\ UNCHANGED <<y, n_fft, transient_density, transient_q_factor, avg_spectrum,
                   avg_spectrum_smooth, freq_range, reference_level,
                   actual_q_values, result, raised, clock, earlier>>

ZeroLatency ==
    /\ pc = "zero_latency"
    /\ preset_data' = [preset_data EXCEPT !.ZeroLatency = ONE]
    /\ pc' = "rebalance"
    /\ UNCHANGED <<y, n_fft, transient_density, transient_q_factor, avg_spectrum,
                   avg_spectrum_smooth, freq_range, reference_level, band_raw, band_i,
                   actual_q_values, result, raised, clock, earlier>>

\* ------------------------------------------------------------------------
\* GlobalQBalancer: the final pass of analyze_audio over Q0..Q6
\* ------------------------------------------------------------------------

RECURSIVE MaxOver(_, _)
MaxOver(f, n) == IF n = 0 THEN f[0] ELSE Max2(f[n], MaxOver(f, n - 1))

\* The Q ceiling of the final pass, in thousandths.
QCeiling == 2000

\* (np.log10(new_actual_q) - np.log10(0.1)) / (np.log10(10) - np.log10(0.1)),
\* clamped to [0, 1].
RenormalizeQ(new_actual_q) ==
    Clamp01(Log10Fix(new_actual_q) - Log10Fix(100),
            Log10Fix(10000) - Log10Fix(100))

\* The pass as a clamp of each band on its own.
RebalancedQPerBand(qs, actual) ==
    [i \in Bands |-> IF actual[i] > QCeiling THEN RenormalizeQ(QCeiling) ELSE qs[i]]

\* The pass with a ceiling of 3.0.
RebalancedQLax(qs, actual) ==
    LET top == MaxOver(actual, 6)
    IN  IF top > QCeiling + 1000
        THEN [i \in Bands |->
                 RenormalizeQ(Max2(1, (actual[i] * (QCeiling + 1000) + top \div 2) \div top))]
        ELSE qs

\* The Q fields after the pass, given the denormalized list.
RebalancedQ(qs, actual) ==
    LET top == MaxOver(actual, 6)
    IN  IF top > QCeiling
        THEN [i \in Bands |->
                 RenormalizeQ(Max2(1, (actual[i] * QCeiling + top \div 2) \div top))]
        ELSE qs

QRebalance ==
    /\ pc = "rebalance"
    /\ LET actual == [i \in Bands |-> DenormalizeQ(preset_data.Q[i])]
       IN  /\ actual_q_values' = actual
           /\ preset_data' = [preset_data EXCEPT !.Q = RebalancedQ(preset_data.Q, actual)]
    /\ pc' = "save"
    /\ UNCHANGED <<y, n_fft, transient_density, transient_q_factor, avg_spectrum,
                   avg_spectrum_smooth, freq_range, reference_level, band_raw, band_i,
                   result, raised, clock, earlier>>

\* Writing the file: it succeeds, or a PermissionError sends it to the
\* fallback path, or another error makes analyze_audio return None.
Save ==
    /\ pc = "save"
    /\ \E outcome \in {"output_path", "fallback_path", "None"} :
          /\ result' = outcome
          /\ raised' = IF outcome = "None" THEN "save" ELSE ""
    /\ pc' = "done"
    /\ UNCHANGED <<y, n_fft, transient_density, transient_q_factor, avg_spectrum,
                   avg_spectrum_smooth, freq_range, reference_level, preset_data,
                   band_raw, band_i, actual_q_values, clock, earlier>>

\* A second run of analyze_audio on the same input; the first run's preset is
\* kept for comparison.
Rerun ==
    /\ pc = "done"
    /\ raised = ""
    /\ earlier = <<>>
    /\ earlier' = <<preset_data>>
    /\ pc' = "n_fft"
    /\ n_fft' = 0
    /\ transient_density' = 0
    /\ transient_q_factor' = 0
    /\ avg_spectrum' = <<>>
    /\ avg_spectrum_smooth' = <<>>
    /\ freq_range' = <<>>
    /\ reference_level' = 0
    /\ preset_data' = EmptyPreset
    /\ band_raw' = <<>>
    /\ band_i' = 0
    /\ actual_q_values' = <<>>
    /\ result' = "running"
    /\ raised' = ""
    /\ UNCHANGED <<y, clock>>

\* ------------------------------------------------------------------------
\* The signals analysed
\* ------------------------------------------------------------------------

\* Spectrum shapes 1 .. ShapeCount of ShapeTable occur in a signal.
ShapeCount == 2

\* Envelope peaks found in a signal: 0 .. MaxPeaks.
MaxPeaks == 1

\* Segment contents: `lead` silent segments, then shapes a and b in turn.
SegmentsOf(lead, a, b) ==
    [g \in 1 .. NumSegments |->
        IF g <= lead THEN 0 ELSE IF g % 2 = 1 THEN a ELSE b]

SegmentPatterns ==
    {SegmentsOf(NumSegments, 0, 0)}
    \cup {SegmentsOf(lead, a, b) : lead \in {0, 1}, a \in 1 .. ShapeCount,
                                   b \in 1 .. ShapeCount}

\* An all-zero signal: every segment silent, a flat envelope.
ZeroSignal(len, sr) ==
    [len |-> len, sr |-> sr, name |-> "take.wav", zero |-> TRUE,
     segments |-> SegmentsOf(NumSegments, 0, 0), peaks |-> 0]

Signals ==
    {ZeroSignal(len, sr) : len \in Lengths, sr \in SampleRates}
    \cup {[len |-> len, sr |-> sr, name |-> "take.wav", zero |-> FALSE,
           segments |-> seg, peaks |-> p] :
            len \in Lengths \ {0}, sr \in SampleRates,
            seg \in SegmentPatterns, p \in 0 .. MaxPeaks}

Init ==
    /\ y \in Signals
    /\ Fresh
    /\ clock = 0
    /\ earlier = <<>>

Next ==
    \/ ChooseNfft
    \/ AnalyzeTransients
    \/ AnalyzeSegments
    \/ Smooth
    \/ Weight
    \/ DetectRange
    \/ ReferenceLevel
    \/ Metadata
    \/ Band
    \/ ZeroLatency
    \/ QRebalance
    \/ Save
    \/ Rerun

Spec == Init /\ [][Next]_vars

\* A run that built its preset.
Built == pc = "done" /\ raised \in {"", "save"}

\* The stages that end a run in the outer handler.
Stages == {"analyze_transients", "savgol_filter", "calculate_reference_level"}

\* Every field written so far.
Written ==
    {preset_data.Frequency[i] : i \in Bands}
    \cup {preset_data.Gain[i] : i \in Bands}
    \cup {preset_data.Q[i] : i \in Bands}

\* C1: every Frequency, Gain and Q field of the preset lies in [0, 1], when
\* the band loop writes it and after the final pass.
C1_FieldsInUnitRange ==
    \A v \in Written \ {Unset} : 0 <= v /\ v <= ONE

\* A finished preset whose first band peaked in the 0 Hz bin.
C1_Witness ==
    /\ Built
    /\ Unset \notin Written
    /\ preset_data.Frequency[0] = 0
    /\ \E i \in Bands : preset_data.Gain[i] \notin {0, ONE \div 2}

\* C3: no length and no sample rate makes an analysis stage raise.
C3_NeverRaises == raised \notin Stages

\* C4: an all-zero signal whose analysis completes has 0.5 in every Gain
\* field.
C4_SilenceGainsNeutral ==
    (y.zero /\ pc = "done" /\ raised = "") => \A i \in Bands : preset_data.Gain[i] = normalize_gain(0)

\* The second run of a signal has finished.
RanTwice == earlier # <<>> /\ pc = "done" /\ raised = ""

Undated(p) == [p EXCEPT !.Metadata.CreationDate = 0]

C10_TransientsNeverRaise == raised # "analyze_transients"

\* C13: calculate_reference_level returns a level on every grid, those with
\* only one or two reference bands included, and never raises.
C13_ReferenceNeverRaises == raised # "calculate_reference_level"

\* ------------------------------------------------------------------------
\* The final pass on its own, for any seven normalized Q values
\* ------------------------------------------------------------------------

\* Normalized Q inputs: the points j / QGrid of [0, 1].
QGrid == 3

QInputs == {(j * ONE) \div QGrid : j \in 0 .. QGrid}

NoSignal == [len |-> 0, sr |-> 0, name |-> "", zero |-> TRUE,
             segments |-> <<>>, peaks |-> 0]

InitQ ==
    /\ pc = "rebalance"
    /\ \E qs \in [Bands -> QInputs] :
           preset_data = [EmptyPreset EXCEPT !.Q = qs]
    /\ y = NoSignal
    /\ n_fft = 0
    /\ transient_density = 0
    /\ transient_q_factor = 0
    /\ avg_spectrum = <<>>
    /\ avg_spectrum_smooth = <<>>
    /\ freq_range = <<>>
    /\ reference_level = 0
    /\ band_raw = <<>>
    /\ band_i = 7
    /\ actual_q_values = <<>>
    /\ result = "running"
    /\ raised = ""
    /\ clock = 0
    /\ earlier = <<>>

NextQ == QRebalance

SpecQ == InitQ /\ [][NextQ]_vars

\* Whether the final pass has run, and whether it rescaled.
PassDone == pc = "save" /\ actual_q_values # <<>>

Rescaled == PassDone /\ MaxOver(actual_q_values, 6) > QCeiling

\* C2: after the final pass, the largest denormalized Q of the seven bands is
\* at most 2.0 (within 0.002 of rounding).
C2_QCeilingHolds ==
    PassDone => \A i \in Bands : DenormalizeQ(preset_data.Q[i]) <= QCeiling + 2

\* A pass that rescaled: some Q was above 2.0, and the largest is now 2.0.
C2_Witness ==
    /\ Rescaled
    /\ \E i \in Bands : DenormalizeQ(preset_data.Q[i]) >= QCeiling - 2

ScaledQ(i) == (actual_q_values[i] * QCeiling) \div MaxOver(actual_q_values, 6)

BandNfft == 16

\* Rates that give each band, on that grid, an empty slice, a slice of one
\* or two bins, and a slice with bins inside it; 6400 Hz gives band 3 four bins.
BandRates == {500, 1600, 6400, 8000, 22050, 44100}

\* Levels 0, -8, -16, ... dB: steps wider than 3 dB and than the gain
\* thresholds are apart.
LevelMax == 2

Levels == {-(8000 * j) : j \in 0 .. LevelMax}

\* The three values analyze_transients can return.
QFactors == {TransientQFactor(d) : d \in {0, 6000, 11000}}

\* One band's slice takes every filling; the other bins stay at 0 dB.
InitBand ==
    /\ pc = "bands"
    /\ band_i = 0
    /\ n_fft = BandNfft
    /\ \E sr \in BandRates :
          /\ y = [NoSignal EXCEPT !.sr = sr]
          /\ \E b \in Bands :
                \E fill \in [LowIdx(b, sr, BandNfft) .. HighIdx(b, sr, BandNfft) - 1 -> Levels] :
                   avg_spectrum_smooth =
                       [j \in 1 .. NumBins(BandNfft) |->
                           IF j - 1 \in DOMAIN fill THEN fill[j - 1] ELSE 0]
    /\ reference_level \in Levels
    /\ transient_q_factor \in QFactors
    /\ transient_density = 0
    /\ avg_spectrum = <<>>
    /\ freq_range = <<>>
    /\ preset_data = EmptyPreset
    /\ band_raw = <<>>
    /\ actual_q_values = <<>>
    /\ result = "running"
    /\ raised = ""
    /\ clock = 0
    /\ earlier = <<>>

NextBand == Band

SpecBand == InitBand /\ [][NextBand]_vars

\* The raw results emitted so far.
Emitted == {band_raw[k] : k \in 1 .. Len(band_raw)}

\* C5: every raw band result handed to the normalizer has its gain in
\* [-12, 6] dB and its Q in [0.5, 2.0], whichever path produced it.
C5_RawWithinClamps ==
    \A b \in Emitted :
        /\ -12000 <= b.gain /\ b.gain <= 6000
        /\ 500 <= b.q /\ b.q <= 2000

\* All four paths taken in one run, with a gain and a Q at a limit.
C5_Witness ==
    /\ \A p \in {"bass", "peak", "dip", "empty"} : \E b \in Emitted : b.path = p
    /\ \E b \in Emitted : b.gain \in {-12000, 6000}
    /\ \E b \in Emitted : b.q = 2000

\* The slice of band b is empty / holds one level only.
EmptySlice(b) == LowIdx(b, y.sr, n_fft) >= HighIdx(b, y.sr, n_fft)

FlatSlice(b) ==
    /\ ~EmptySlice(b)
    /\ \A k \in LowIdx(b, y.sr, n_fft) .. HighIdx(b, y.sr, n_fft) - 1 :
           Bin(avg_spectrum_smooth, k) = Bin(avg_spectrum_smooth, LowIdx(b, y.sr, n_fft))

SliceLevel(b) == Bin(avg_spectrum_smooth, LowIdx(b, y.sr, n_fft))

\* normalize_frequency(sqrt(low * high)) of the seven bands, to five places.
CentreNormalized ==
    [b \in Bands |->
        CASE b = 0 -> 14584 [] b = 1 -> 36268 [] b = 2 -> 48385 [] b = 3 -> 61650
          [] b = 4 -> 74914 [] b = 5 -> 84949 [] b = 6 -> 94983]

\* C8: a band whose index range is empty emits normalize_frequency of the
\* geometric mean of its edges, normalize_gain(0) = 0.5 and normalize_q(1.0)
\* = 0.5, whatever the spectrum, the reference level and the transient factor.
C8_EmptyBandFallback ==
    \A b \in Emitted :
        EmptySlice(b.band) =>
            /\ b.gain = 0 /\ b.q = 1000
            /\ Abs(preset_data.Frequency[b.band] - CentreNormalized[b.band]) <= 5
            /\ preset_data.Gain[b.band] = 50000
            /\ Abs(preset_data.Q[b.band] - 50000) <= 5

\* An empty band emitted beside bands that are not at 0 dB, with a reference
\* level and a transient factor that would have moved a computed band.
C8_Witness ==
    /\ \E b \in Emitted : EmptySlice(b.band)
    /\ \E j \in 1 .. Len(avg_spectrum_smooth) : avg_spectrum_smooth[j] # 0
    /\ reference_level # 0
    /\ transient_q_factor = 1300

\* The Q of a band whose extremum is the first bin of its slice, before the
\* transient factor: 1.0 times 0.7 / 0.8 / 0.9 in bands 0..2, and times the 0.8
\* of a dip in bands 3..6.
FlatBandQ ==
    [b \in Bands |-> CASE b = 0 -> 700 [] b = 1 -> 800 [] b = 2 -> 900 [] OTHER -> 800]

\* C7 as stated: a band of zero variance emits normalize_gain(0) whatever the
\* reference level.
C7_FlatGainNeutral ==
    \A b \in Emitted :
        FlatSlice(b.band) => preset_data.Gain[b.band] = 50000

\* C7: a band of zero variance whose level is the reference level emits
\* normalize_gain(0), and the Q of an extremum at the slice edge: 1.0 scaled
\* by the band's factor and the transient factor.
C7_FlatAtReference ==
    \A b \in Emitted :
        (FlatSlice(b.band) /\ SliceLevel(b.band) = reference_level) =>
            /\ preset_data.Gain[b.band] = 50000
            /\ Abs(preset_data.Q[b.band]
                   - normalize_q((FlatBandQ[b.band] * transient_q_factor) \div 1000)) <= 5

\* Flat bands at the reference level, in the bass group and in the upper
\* group, a slice of several bins among them.
C7_Witness ==
    /\ \E b \in Emitted :
          b.band <= 2 /\ FlatSlice(b.band) /\ SliceLevel(b.band) = reference_level
    /\ \E b \in Emitted :
          /\ b.band >= 3 /\ FlatSlice(b.band) /\ SliceLevel(b.band) = reference_level
          /\ HighIdx(b.band, y.sr, n_fft) - LowIdx(b.band, y.sr, n_fft) >= 3

\* ------------------------------------------------------------------------
\* calculate_q_from_spectrum within the band loop
\* ------------------------------------------------------------------------

\* The bands whose slice was searched for an extremum.
Searched == {b \in Emitted : b.path # "empty"}

\* The extremum of b is the first or the last bin of its slice.
AtEdge(b) ==
    \/ b.ext = LowIdx(b.band, y.sr, n_fft)
    \/ b.ext = HighIdx(b.band, y.sr, n_fft) - 1

\* The two walks from the extremum of b end at different bins, the upper one
\* above the lower one.
WalksApart(b) ==
    LET lo == LowIdx(b.band, y.sr, n_fft)
        hi == HighIdx(b.band, y.sr, n_fft)
        hp == Bin(avg_spectrum_smooth, b.ext) - 3000
    IN  LowerWalk(avg_spectrum_smooth, lo, b.ext - lo, hp)
          < UpperWalk(avg_spectrum_smooth, lo, hi - lo, b.ext - lo, hp)

SliceBins(b) == LowIdx(b.band, y.sr, n_fft) .. HighIdx(b.band, y.sr, n_fft) - 1

SliceLevels(b) == {Bin(avg_spectrum_smooth, k) : k \in SliceBins(b)}

\* The first bin of the slice that holds level v.
FirstAt(b, v) ==
    CHOOSE k \in SliceBins(b) :
        /\ Bin(avg_spectrum_smooth, k) = v
        /\ \A j \in SliceBins(b) : j < k => Bin(avg_spectrum_smooth, j) # v

\* len * (max - average) and len * (average - min) of the slice, exactly.
PeakDistance(b) ==
    Cardinality(SliceBins(b)) * SetMax(SliceLevels(b))
      - SumRange(avg_spectrum_smooth, LowIdx(b.band, y.sr, n_fft),
                 HighIdx(b.band, y.sr, n_fft))

DipDistance(b) ==
    SumRange(avg_spectrum_smooth, LowIdx(b.band, y.sr, n_fft),
             HighIdx(b.band, y.sr, n_fft))
      - Cardinality(SliceBins(b)) * SetMin(SliceLevels(b))

\* Weighted peak significance strictly above weighted dip significance:
\* dip x1.15 in band 3, peak x1.1 in band 4, peak x1.2 in bands 5 and 6.
PeakMoreSignificant(b) ==
    CASE b.band = 3 -> 100 * PeakDistance(b) > 115 * DipDistance(b)
      [] b.band = 4 -> 110 * PeakDistance(b) > 100 * DipDistance(b)
      [] OTHER      -> 120 * PeakDistance(b) > 100 * DipDistance(b)

\* C12: a band of the upper group with a non-empty slice reports the slice
\* maximum (its frequency, and its level minus the reference level as the
\* gain before dampening) exactly when the weighted peak significance is
\* strictly above the weighted dip significance, and the slice minimum
\* otherwise, ties included.
C12_PeakOrDip ==
    \A b \in Searched :
        b.band >= 3 =>
            LET v == IF PeakMoreSignificant(b) THEN SetMax(SliceLevels(b))
                     ELSE SetMin(SliceLevels(b))
            IN  /\ b.path = IF PeakMoreSignificant(b) THEN "peak" ELSE "dip"
                /\ b.ext = FirstAt(b, v)
                /\ b.freq = Freq(FirstAt(b, v), y.sr, n_fft)
                /\ b.gain0 = v - reference_level

\* A band of the top group whose maximum is reported only through its
\* weight (unweighted, the two distances tie), beside a flat band that reports
\* its minimum on the tie.
C12_Witness ==
    /\ \E b \in Searched :
          /\ b.band >= 5 /\ b.path = "peak"
          /\ PeakDistance(b) = DipDistance(b)
    /\ \E b \in Searched :
          b.band >= 3 /\ b.path = "dip" /\ PeakDistance(b) = 0 /\ DipDistance(b) = 0
    /\ \E b \in Searched :
          b.band >= 3 /\ b.gain0 # 0

\* ------------------------------------------------------------------------
\* detect_frequency_range on its own, for any spectrum
\* ------------------------------------------------------------------------

\* Grids whose last bin is at 4000, 22050 and 24000 Hz.
RangeRates == {8000, 44100, 48000}

\* Levels on either side of the -60 dB threshold.
RangeLevels == {-70000, -50000}

InitRange ==
    /\ pc = "range"
    /\ n_fft = BandNfft
    /\ \E sr \in RangeRates : y = [NoSignal EXCEPT !.sr = sr]
    /\ avg_spectrum_smooth \in [1 .. NumBins(BandNfft) -> RangeLevels]
    /\ avg_spectrum = <<>>
    /\ freq_range = <<>>
    /\ reference_level = 0
    /\ transient_density = 0
    /\ transient_q_factor = 0
    /\ preset_data = EmptyPreset
    /\ band_raw = <<>>
    /\ band_i = 0
    /\ actual_q_values = <<>>
    /\ result = "running"
    /\ raised = ""
    /\ clock = 0
    /\ earlier = <<>>

NextRange == DetectRange

SpecRange == InitRange /\ [][NextRange]_vars

FracLe(a, b) == a.num * b.den <= b.num * a.den

\* C14: the pair returned by detect_frequency_range satisfies
\* 20 <= min_freq <= max_freq <= 20000.
C14_RangeOrdered ==
    freq_range # <<>> =>
        /\ FracLe(Hz(20), freq_range[1])
        /\ FracLe(freq_range[1], freq_range[2])
        /\ FracLe(freq_range[2], Hz(20000))

\* ------------------------------------------------------------------------
\* The bandwidth measured around a dip
\* ------------------------------------------------------------------------

\* The bands that report a minimum lying inside their slice.
InnerDips == {b \in Searched : b.path = "dip" /\ ~AtEdge(b)}

\* center / bandwidth with the bandwidth the whole span of the slice, scaled
\* and capped as calculate_q_from_spectrum does.
FullSpanQ(b) ==
    LET span == HighIdx(b.band, y.sr, n_fft) - 1 - LowIdx(b.band, y.sr, n_fft)
        q    == (b.ext * 1000) \div span
    IN  Min2(Max2(MusicalScale(q, Freq(b.ext, y.sr, n_fft)), 500), 4000)

NextBandPass ==
    \/ Band
    \/ ZeroLatency
    \/ QRebalance

SpecBandPass == InitBand /\ [][NextBandPass]_vars

\* C16: the final pass never finds a denormalized Q above 2.0, and leaves
\* every Q field at the value the band loop stored.
C16_PassChangesNothing ==
    PassDone =>
        /\ MaxOver(actual_q_values, 6) <= QCeiling
        /\ \A b \in Emitted : preset_data.Q[b.band] = normalize_q(b.q)

\* A pass over seven bands, one of them clamped to Q 2.0 by the band loop:
\* its denormalized Q is at the ceiling, not above it.
C16_Witness ==
    /\ PassDone
    /\ Len(band_raw) = 7
    /\ \E b \in Emitted : b.q = 2000 /\ actual_q_values[b.band] >= QCeiling - 2

====
